---- MODULE Spec2Model ----
(***************************************************************************)
(* Model of the autoencoder training script of Plankton-Fusion:            *)
(*   feature_extraction/train_autoencoder.py  (train_autoencoder)          *)
(*   tools/utils.py                           (plot_loss, memory_usage)    *)
(*                                                                         *)
(* Spec      : one run of train_autoencoder, from just after the           *)
(*             configuration is loaded to the end of the process.          *)
(* SpecProbe : one call of memory_usage.                                   *)
(***************************************************************************)
EXTENDS Integers, Sequences, FiniteSets

(* ------------------------------ bounds --------------------------------- *)

\* largest number of rows of sampled_images.csv in a modelled run
MaxRows == 2
\* largest number of rows of the label column the class weights are computed of
MaxWeightRows == 5
\* config.sampling.num_class of the modelled runs
NumClass == 2
\* largest config.autoencoder.num_epoch
MaxEpoch == 2
\* largest config.autoencoder.save_model_every_n_epoch
MaxCadence == 2
\* largest value loss.item() takes
MaxLoss == 1
\* largest reading of a memory counter, in bytes
MaxMem == 4

\* largest config.autoencoder.batch_size
MaxBatchSize == 2

(* --------------------------- program constants ------------------------- *)

\* number of bytes in one MB, the divisor 1024 * 1024 of memory_usage
BytesPerMB == 1048576

ArchitectureTypes == {"conv_autoencoder", "resnet18", "vgg16"}
LossTypes == {"cross_entropy", "cross_entropy_weight", "focal", "mse", "l1"}
LossItems == 0..MaxLoss
MemLevels == 0..MaxMem

(* ------------------------- exact rational numbers ---------------------- *)
(* A Python float is modelled by the exact rational <<numerator,           *)
(* denominator>> in lowest terms, denominator > 0.                         *)

RECURSIVE GCD(_, _)
GCD(a, b) == IF b = 0 THEN a ELSE GCD(b, a % b)

Abs(a) == IF a < 0 THEN -a ELSE a

Rat(n, d) ==
    LET g == GCD(Abs(n), d)
    IN  <<n \div g, d \div g>>

RatAdd(x, y) == Rat(x[1] * y[2] + y[1] * x[2], x[2] * y[2])
RatDiv(x, y) == Rat(x[1] * y[2], x[2] * y[1])
RatLess(x, y) == x[1] * y[2] < y[1] * x[2]

RECURSIVE RatSum(_)
RatSum(s) == IF s = <<>> THEN Rat(0, 1) ELSE RatAdd(Head(s), RatSum(Tail(s)))

RECURSIVE SumSeq(_)
SumSeq(s) == IF s = <<>> THEN 0 ELSE Head(s) + SumSeq(Tail(s))

(* --------------------------- class weights ----------------------------- *)

Labels == 0..(NumClass - 1)

ManifestsUpTo(rows) == UNION {[1..n -> Labels] : n \in 0..rows}
Manifests == ManifestsUpTo(MaxRows)

Count(labels, c) == Cardinality({i \in DOMAIN labels : labels[i] = c})

SetMin(S) == CHOOSE m \in S : \A x \in S : m <= x

\* data_frame['label'].value_counts().sort_index().tolist(): the counts of
\* the labels that occur, in increasing order of label; a label that does
\* not occur has no entry.
RECURSIVE CountsInIndexOrder(_, _)
CountsInIndexOrder(labels, present) ==
    IF present = {} THEN <<>>
    ELSE LET c == SetMin(present)
         IN  <<Count(labels, c)>> \o CountsInIndexOrder(labels, present \ {c})

ValueCounts(labels) ==
    CountsInIndexOrder(labels, {labels[i] : i \in DOMAIN labels})

\* class_weights = [total_samples / (num_class * count) for count in class_counts]
RawWeights(class_counts) ==
    LET total_samples == SumSeq(class_counts)
    IN  [i \in DOMAIN class_counts |->
            Rat(total_samples, NumClass * class_counts[i])]

\* class_weights_tensor / class_weights_tensor.sum()
Normalize(w) == [i \in DOMAIN w |-> RatDiv(w[i], RatSum(w))]

\* faulty variant: weights proportional to the counts instead of inverse
ProportionalWeights(labels) ==
    LET class_counts == ValueCounts(labels)
        total_samples == SumSeq(class_counts)
    IN  Normalize([i \in DOMAIN class_counts |->
                      Rat(NumClass * class_counts[i], total_samples)])

ClassWeights(labels) == Normalize(RawWeights(ValueCounts(labels)))

(* ----------------------------- the state ------------------------------- *)

VARIABLES
    pc,                 \* position of the run in train_autoencoder
    exit_error,         \* message of console.quit / uncaught exception, "" if none
    architecture_type,  \* config.autoencoder.architecture_type
    loss,               \* config.autoencoder.loss
    num_epoch,          \* config.autoencoder.num_epoch
    save_every,         \* config.autoencoder.save_model_every_n_epoch
    batch_size,         \* config.autoencoder.batch_size
    manifest,           \* label column of sampled_images.csv, row by row
    csv_exists,         \* input_csv.is_file()
    preexisting,        \* training_path existed when the run started
    dir_exists,         \* training_path.exists()
    dir_files,          \* the files in training_path
    written,            \* the files this run wrote into training_path, in order
    class_weights_tensor,
    model,              \* "unbound", "ConvAutoencoder" or "ResNetCustom"
    criterion,          \* "unbound" or the loss object built
    epoch,              \* number of epochs finished (the loop variable)
    running_loss,
    loss_values,
    remaining,          \* rows the loader has not yet yielded this epoch
    loss_items,         \* sum of the values loss.item() returned in the running epoch
    criterion_call,     \* <<>> or <<[images, target]>>: the criterion call of the
                        \* latest batch step of the running epoch
    plot_args,          \* <<>> or <<[x_len, y_len]>> of the last plot_loss call
    probe_pc,           \* position inside memory_usage
    device_type,        \* device.type inside memory_usage
    memory_before,
    memory_after,
    probe_result        \* <<>> or <<the value memory_usage returned>>

configVars == <<architecture_type, loss, num_epoch, save_every, batch_size, manifest,
                csv_exists, preexisting>>
fsVars == <<dir_exists, dir_files, written>>
buildVars == <<class_weights_tensor, model, criterion>>
loopVars == <<epoch, running_loss, loss_values, remaining, loss_items,
              criterion_call, plot_args>>
probeVars == <<probe_pc, device_type, memory_before, memory_after, probe_result>>
trainVars == <<pc, exit_error, configVars, fsVars, buildVars, loopVars>>
vars == <<trainVars, probeVars>>

\* file names inside training_path: <<name, epoch number or 0>>
ConfigFile == <<"config.yaml", 0>>
PlotFile == <<"loss_plot.png", 0>>
EpochFile(k) == <<"model_weights_epoch", k>>
FinalFile == <<"model_weights_final.pth", 0>>

\* what a run that used the same timestamp left behind
PreviousRunFiles == {ConfigFile}

(* ------------------------- leaving the process ------------------------- *)

\* console.quit(message): logs the message and terminates the process.
Quit(message) ==
    /\ pc' = "failed"
    /\ exit_error' = message

\* An exception nothing in train_autoencoder catches ends the process.
Raise(exception) ==
    /\ pc' = "failed"
    /\ exit_error' = exception

(* ------------------------ expressions of the code ---------------------- *)

\* faulty variant: the directory is made without looking whether it exists
TrainingPathIgnored == TRUE
\* `not training_path.exists()`
TrainingPathFree == ~dir_exists

\* len(train_loader): batches of batch_size rows, the last one may be short
NumBatches == (Len(manifest) + batch_size - 1) \div batch_size

\* the batches a shuffled loader can yield next
NextBatches ==
    LET size == IF Cardinality(remaining) < batch_size
                THEN Cardinality(remaining) ELSE batch_size
    IN  {b \in SUBSET remaining : Cardinality(b) = size}

\* the image tensor and the label tensor of a batch of rows
Images(batch) == [src |-> "image", val |-> [i \in batch |-> i]]
LabelsOf(batch) == [src |-> "label", val |-> [i \in batch |-> manifest[i]]]

\* faulty variant: the labels are never replaced by the images
TargetAlwaysLabels(images, labels) == labels
\* `if architecture_type == 'conv_autoencoder': labels = images`
Target(images, labels) ==
    IF architecture_type = "conv_autoencoder" THEN images ELSE labels

\* faulty variant: the history is replaced by its newest element
LossValuesRewritten(values, average_loss) == <<average_loss>>
\* `loss_values.append(average_loss)`
LossValuesAppended(values, average_loss) == Append(values, average_loss)

\* faulty variant: the loop index is passed as it is
PlotEpochArgStale(e) == e
\* `num_epoch=epoch + 1` of the plot_loss call in the loop
PlotEpochArg(e) == e + 1

\* faulty variant: the 0-based loop index is tested
CheckpointDueOffByOne(e) == e % save_every = 0
\* `(epoch + 1) % save_model_every_n_epoch == 0`
CheckpointDue(e) == (e + 1) % save_every = 0

\* plt.plot(np.arange(1, num_epoch + 1), loss_values) needs x and y of one length
PlotShapesAgree(values, n) == Len(values) = n

(* --------------------------- train_autoencoder ------------------------- *)

Init ==
    /\ pc = "check_csv"
    /\ exit_error = ""
    /\ architecture_type \in ArchitectureTypes
    /\ loss \in LossTypes
    /\ num_epoch \in 0..MaxEpoch
    /\ save_every \in 1..MaxCadence
    /\ batch_size \in 1..MaxBatchSize
    /\ csv_exists \in BOOLEAN
    /\ manifest \in (IF csv_exists THEN Manifests ELSE {<<>>})
    /\ preexisting \in BOOLEAN
    /\ dir_exists = preexisting
    /\ dir_files = (IF preexisting THEN PreviousRunFiles ELSE {})
    /\ written = <<>>
    /\ class_weights_tensor = <<>>
    /\ model = "unbound"
    /\ criterion = "unbound"
    /\ epoch = 0
    /\ running_loss = 0
    /\ loss_values = <<>>
    /\ remaining = {}
    /\ loss_items = 0
    /\ criterion_call = <<>>
    /\ plot_args = <<>>
    /\ probe_pc = "idle"
    /\ device_type = "cpu"
    /\ memory_before = 0
    /\ memory_after = 0
    /\ probe_result = <<>>

CheckInputCsv ==
    /\ pc = "check_csv"
    /\ IF csv_exists
       THEN pc' = "make_dir" /\ UNCHANGED exit_error
       ELSE Quit("Input csv file does not exist.")
    /\ UNCHANGED <<configVars, fsVars, buildVars, loopVars, probeVars>>

CreateTrainingPath ==
    /\ pc = "make_dir"
    /\ IF TrainingPathFree
       THEN /\ dir_exists' = TRUE
            /\ dir_files' = dir_files \cup {ConfigFile}
            /\ written' = Append(written, ConfigFile)
            /\ pc' = "dataset"
            /\ UNCHANGED exit_error
       ELSE /\ Quit("Folder exists, not overwriting previous results.")
            /\ UNCHANGED fsVars
    /\ UNCHANGED <<configVars, buildVars, loopVars, probeVars>>

BuildDataset ==
    /\ pc = "dataset"
    /\ class_weights_tensor' = ClassWeights(manifest)
    /\ pc' = "loader"
    /\ UNCHANGED <<exit_error, configVars, fsVars, model, criterion, loopVars,
                   probeVars>>

\* A loader over an empty dataset: whether the shuffling sampler accepts it
\* depends on the library version, so both outcomes are possible.  The
\* device chosen at line 85 is read by memory_usage alone; InitProbe draws it.
BuildLoader ==
    /\ pc = "loader"
    /\ \/ pc' = "build_model" /\ UNCHANGED exit_error
       \/ manifest = <<>> /\ Raise("ValueError: num_samples=0")
    /\ UNCHANGED <<configVars, fsVars, buildVars, loopVars, probeVars>>

BuildModel ==
    /\ pc = "build_model"
    /\ IF architecture_type = "conv_autoencoder"
       THEN model' = "ConvAutoencoder" /\ pc' = "build_criterion"
            /\ UNCHANGED exit_error
       ELSE IF architecture_type = "resnet18"
       THEN model' = "ResNetCustom" /\ pc' = "build_criterion"
            /\ UNCHANGED exit_error
       ELSE Quit("Please select correct parameter for architecture_type")
            /\ UNCHANGED model
    /\ UNCHANGED <<configVars, fsVars, class_weights_tensor, criterion, loopVars,
                   probeVars>>

BuildCriterion ==
    /\ pc = "build_criterion"
    /\ criterion' =
          IF loss = "cross_entropy" THEN "CrossEntropyLoss"
          ELSE IF loss = "cross_entropy_weight" THEN "WeightedCrossEntropyLoss"
          ELSE IF loss = "focal" THEN "FocalLoss"
          ELSE IF loss = "mse" THEN "MSELoss"
          ELSE criterion
    /\ pc' = "probe"
    /\ UNCHANGED <<exit_error, configVars, fsVars, class_weights_tensor, model,
                   loopVars, probeVars>>

\* memory_usage returns: its report is logged, the optimizer is built and
\* loss_values starts empty.
MemoryProbeReturns ==
    /\ pc = "probe"
    /\ loss_values' = <<>>
    /\ pc' = "epoch_head"
    /\ UNCHANGED <<exit_error, configVars, fsVars, buildVars, epoch, running_loss,
                   remaining, loss_items, criterion_call, plot_args, probeVars>>

\* the dummy forward pass or a counter read of memory_usage raises
MemoryProbeRaises ==
    /\ pc = "probe"
    /\ Raise("memory_usage raised")
    /\ UNCHANGED <<configVars, fsVars, buildVars, loopVars, probeVars>>

EpochHead ==
    /\ pc = "epoch_head"
    /\ IF epoch < num_epoch
       THEN /\ running_loss' = 0
            /\ remaining' = DOMAIN manifest
            /\ pc' = "batch"
       ELSE /\ pc' = "final"
            /\ UNCHANGED <<running_loss, remaining>>
    /\ UNCHANGED <<exit_error, configVars, fsVars, buildVars, epoch, loss_values,
                   loss_items, criterion_call, plot_args, probeVars>>

BatchStep ==
    /\ pc = "batch"
    /\ remaining # {}
    /\ \E batch \in NextBatches, item \in LossItems :
          LET images == Images(batch)
              labels == Target(images, LabelsOf(batch))
          IN  IF criterion = "unbound"
              THEN /\ Raise("NameError: criterion")
                   /\ UNCHANGED <<running_loss, remaining, loss_items,
                                  criterion_call>>
              ELSE /\ criterion_call' = <<[images |-> images, target |-> labels]>>
                   /\ running_loss' = running_loss + item
                   /\ loss_items' = loss_items + item
                   /\ remaining' = remaining \ batch
                   /\ UNCHANGED <<pc, exit_error>>
    /\ UNCHANGED <<configVars, fsVars, buildVars, epoch, loss_values, plot_args,
                   probeVars>>

EpochEnd ==
    /\ pc = "batch"
    /\ remaining = {}
    /\ IF NumBatches = 0
       THEN /\ Raise("ZeroDivisionError")
            /\ UNCHANGED <<fsVars, epoch, loss_values, plot_args, loss_items,
                           criterion_call>>
       ELSE LET average_loss == Rat(running_loss, NumBatches)
                values == LossValuesAppended(loss_values, average_loss)
                n == PlotEpochArg(epoch)
                saved == IF CheckpointDue(epoch)
                         THEN <<EpochFile(epoch + 1)>> ELSE <<>>
            IN  /\ loss_values' = values
                /\ plot_args' = <<[x_len |-> n, y_len |-> Len(values)]>>
                /\ loss_items' = 0
                /\ criterion_call' = <<>>
                /\ IF PlotShapesAgree(values, n)
                   THEN /\ written' = written \o <<PlotFile>> \o saved
                        /\ dir_files' = dir_files \cup {PlotFile}
                                           \cup {saved[i] : i \in DOMAIN saved}
                        /\ epoch' = epoch + 1
                        /\ pc' = "epoch_head"
                        /\ UNCHANGED <<exit_error, dir_exists>>
                   ELSE /\ Raise("ValueError: x and y must have same first dimension")
                        /\ UNCHANGED <<fsVars, epoch>>
    /\ UNCHANGED <<configVars, buildVars, running_loss, remaining, probeVars>>

Finish ==
    /\ pc = "final"
    /\ plot_args' = <<[x_len |-> num_epoch, y_len |-> Len(loss_values)]>>
    /\ IF PlotShapesAgree(loss_values, num_epoch)
       THEN /\ written' = written \o <<PlotFile, FinalFile>>
            /\ dir_files' = dir_files \cup {PlotFile, FinalFile}
            /\ pc' = "completed"
            /\ UNCHANGED <<exit_error, dir_exists>>
       ELSE /\ Raise("ValueError: x and y must have same first dimension")
            /\ UNCHANGED fsVars
    /\ UNCHANGED <<configVars, buildVars, epoch, running_loss, loss_values,
                   remaining, loss_items, criterion_call, probeVars>>

Next ==
    \/ CheckInputCsv
    \/ CreateTrainingPath
    \/ BuildDataset
    \/ BuildLoader
    \/ BuildModel
    \/ BuildCriterion
    \/ MemoryProbeReturns
    \/ MemoryProbeRaises
    \/ EpochHead
    \/ BatchStep
    \/ EpochEnd
    \/ Finish

Spec == Init /\ [][Next]_vars

(* ------------------- the class weights on their own -------------------- *)
(* The run stands before the dataset is built (its directory made and its  *)
(* configuration saved); the label column ranges over longer manifests.    *)

InitWeights ==
    /\ pc = "dataset"
    /\ exit_error = ""
    /\ architecture_type = "resnet18"
    /\ loss = "cross_entropy_weight"
    /\ num_epoch = 0
    /\ save_every = 1
    /\ batch_size = 1
    /\ csv_exists = TRUE
    /\ manifest \in ManifestsUpTo(MaxWeightRows)
    /\ preexisting = FALSE
    /\ dir_exists = TRUE
    /\ dir_files = {ConfigFile}
    /\ written = <<ConfigFile>>
    /\ class_weights_tensor = <<>>
    /\ model = "unbound"
    /\ criterion = "unbound"
    /\ epoch = 0
    /\ running_loss = 0
    /\ loss_values = <<>>
    /\ remaining = {}
    /\ loss_items = 0
    /\ criterion_call = <<>>
    /\ plot_args = <<>>
    /\ probe_pc = "idle"
    /\ device_type = "cpu"
    /\ memory_before = 0
    /\ memory_after = 0
    /\ probe_result = <<>>

SpecWeights == InitWeights /\ [][BuildDataset]_vars

(* ------------------------------ memory_usage --------------------------- *)

\* the string memory_usage returns: its tag, its text and the number printed
MemoryReport(dtype, before, after) ==
    [tag   |-> IF dtype = "cuda" THEN "GPU" ELSE "CPU",
     text  |-> "Memory Used (MB):",
     value |-> Rat(after - before, BytesPerMB)]

InitProbe ==
    /\ probe_pc = "start"
    /\ device_type \in {"cuda", "cpu"}
    /\ memory_before = 0
    /\ memory_after = 0
    /\ probe_result = <<>>
    /\ pc = "probe"
    /\ exit_error = ""
    /\ architecture_type = "conv_autoencoder"
    /\ loss = "mse"
    /\ num_epoch = 0
    /\ save_every = 1
    /\ batch_size = 1
    /\ csv_exists = TRUE
    /\ manifest = <<0>>
    /\ preexisting = FALSE
    /\ dir_exists = TRUE
    /\ dir_files = {ConfigFile}
    /\ written = <<ConfigFile>>
    /\ class_weights_tensor = ClassWeights(<<0>>)
    /\ model = "ConvAutoencoder"
    /\ criterion = "MSELoss"
    /\ epoch = 0
    /\ running_loss = 0
    /\ loss_values = <<>>
    /\ remaining = {}
    /\ loss_items = 0
    /\ criterion_call = <<>>
    /\ plot_args = <<>>

\* torch.cuda.memory_allocated(device) / psutil.virtual_memory().used
ProbeReadBefore ==
    /\ probe_pc = "start"
    /\ \E m \in MemLevels : memory_before' = m
    /\ probe_pc' = "forward"
    /\ UNCHANGED <<trainVars, device_type, memory_after, probe_result>>

\* _ = model(input_tensor)
ProbeForward ==
    /\ probe_pc = "forward"
    /\ probe_pc' = "read_after"
    /\ UNCHANGED <<trainVars, device_type, memory_before, memory_after,
                   probe_result>>

\* the forward pass raises; memory_usage catches nothing
ProbeForwardRaises ==
    /\ probe_pc = "forward"
    /\ probe_pc' = "raised"
    /\ UNCHANGED <<trainVars, device_type, memory_before, memory_after,
                   probe_result>>

ProbeReadAfter ==
    /\ probe_pc = "read_after"
    /\ \E m \in MemLevels : memory_after' = m
    /\ probe_pc' = "return"
    /\ UNCHANGED <<trainVars, device_type, memory_before, probe_result>>

ProbeReturn ==
    /\ probe_pc = "return"
    /\ probe_result' = <<MemoryReport(device_type, memory_before, memory_after)>>
    /\ probe_pc' = "returned"
    /\ UNCHANGED <<trainVars, device_type, memory_before, memory_after>>

NextProbe ==
    \/ ProbeReadBefore
    \/ ProbeForward
    \/ ProbeForwardRaises
    \/ ProbeReadAfter
    \/ ProbeReturn

SpecProbe == InitProbe /\ [][NextProbe]_vars

(* ------------------------------ the claims ----------------------------- *)

IsEpochFile(f) == f[1] = "model_weights_epoch"
IsFinalFile(f) == f = FinalFile
CheckpointsWritten == SelectSeq(written, IsEpochFile)
FinalsWritten == SelectSeq(written, IsFinalFile)

\* C1: the per-epoch checkpoints written once `epoch` epochs have finished
\* are exactly those of the multiples of the cadence up to `epoch`, each
\* written once and in epoch order; the final checkpoint is written exactly
\* once, as the last file of a completed run, after all num_epoch epochs.
C1_CheckpointSchedule ==
    /\ CheckpointsWritten =
          [i \in 1..(epoch \div save_every) |-> EpochFile(i * save_every)]
    /\ FinalsWritten = (IF pc = "completed" THEN <<FinalFile>> ELSE <<>>)
    /\ pc = "completed" =>
          /\ epoch = num_epoch
          /\ written[Len(written)] = FinalFile

C1_Witness ==
    /\ pc = "completed"
    /\ num_epoch = 2
    /\ save_every = 2
    /\ CheckpointsWritten = <<EpochFile(2)>>
    /\ FinalsWritten = <<FinalFile>>

BadSelector ==
    \/ architecture_type \notin {"conv_autoencoder", "resnet18"}
    \/ loss \notin {"cross_entropy", "cross_entropy_weight", "focal", "mse"}

\* C2: a run with an unrecognized architecture or loss selector never enters
\* an epoch and never completes, and when the selector has made it fail it
\* has created no output directory and written no file.
C2_BadSelectorFailsCleanly ==
    BadSelector =>
        /\ pc \notin {"batch", "final", "completed"}
        /\ exit_error \in {"Please select correct parameter for architecture_type",
                           "NameError: criterion"} =>
              /\ written = <<>>
              /\ dir_exists = preexisting

\* C3: when the output directory exists at the start, the run gets no
\* further than the directory check, where it is aborted; no epoch runs and
\* nothing is written into the directory.
C3_ExistingDirectoryUntouched ==
    preexisting =>
        /\ pc \in {"check_csv", "make_dir", "failed"}
        /\ written = <<>>
        /\ dir_files = PreviousRunFiles
        /\ epoch = 0
        /\ loss_values = <<>>
        /\ criterion_call = <<>>

C3_Witness ==
    /\ preexisting
    /\ pc = "failed"
    /\ exit_error = "Folder exists, not overwriting previous results."

AbsentClass == \E c \in Labels : Count(manifest, c) = 0

\* C4: with a class that has no sample in the manifest the run never gets
\* past the class-weight computation (it fails there), so no weight vector
\* is produced and training never starts.
C4_AbsentClassIsFatal ==
    (csv_exists /\ AbsentClass) =>
        /\ pc \in {"check_csv", "make_dir", "dataset", "failed"}
        /\ class_weights_tensor = <<>>

\* C5: the loss history always has one element per finished epoch, E of
\* them after a completed run; it changes only by appending one element,
\* the average of the losses of the epoch that ends.
C5_LossHistory ==
    /\ [](/\ Len(loss_values) = epoch
          /\ pc = "completed" => Len(loss_values) = num_epoch)
    /\ [][\/ loss_values' = loss_values
          \/ /\ pc = "batch" /\ remaining = {}
             /\ loss_values' = Append(loss_values, Rat(loss_items, NumBatches))
       ]_vars

C5_Witness ==
    /\ pc = "completed"
    /\ num_epoch = 2
    /\ Len(loss_values) = 2
    /\ loss_values[1] # loss_values[2]

\* C6: a failure of the memory probe never aborts the run.
C6_ProbeFailureIsSurvived == exit_error # "memory_usage raised"

AllClassesPresent(labels) == \A c \in Labels : Count(labels, c) > 0

\* C7: when every class has a sample, the weight vector has one entry per
\* class, all entries are positive and sum to 1, and a class with fewer
\* samples has the larger weight.
C7_ClassWeights ==
    (pc = "loader" /\ AllClassesPresent(manifest)) =>
        LET w == class_weights_tensor
        IN  /\ Len(w) = NumClass
            /\ \A i \in DOMAIN w : RatLess(Rat(0, 1), w[i])
            /\ RatSum(w) = Rat(1, 1)
            /\ \A i, j \in DOMAIN w :
                  Count(manifest, i - 1) < Count(manifest, j - 1)
                      => RatLess(w[j], w[i])

C7_Witness ==
    /\ pc = "loader"
    /\ AllClassesPresent(manifest)
    /\ \E c, d \in Labels : Count(manifest, c) < Count(manifest, d)
    /\ Len(class_weights_tensor) = NumClass

\* C8: with the conv_autoencoder architecture every criterion call gets the
\* image batch itself as its target, never the labels of the manifest.
C8_ReconstructionTarget ==
    (architecture_type = "conv_autoencoder" /\ criterion_call # <<>>) =>
        /\ criterion_call[1].target = criterion_call[1].images
        /\ criterion_call[1].target.src = "image"

C8_Witness ==
    /\ architecture_type = "conv_autoencoder"
    /\ criterion_call # <<>>
    /\ \E i \in DOMAIN criterion_call[1].images.val :
          manifest[i] # criterion_call[1].images.val[i]
    /\ epoch = 1

IsFlaggedAnomalous(report) == "anomaly" \in DOMAIN report

\* C9: the report of memory_usage is tagged GPU on a cuda device and CPU
\* otherwise, and a negative delta is flagged as anomalous.
C9_TaggedAndFlagged ==
    probe_result # <<>> =>
        /\ probe_result[1].tag = (IF device_type = "cuda" THEN "GPU" ELSE "CPU")
        /\ memory_after < memory_before => IsFlaggedAnomalous(probe_result[1])

\* C10: every plot_loss call gets as many loss values as epochs to plot, so
\* it never fails on a length mismatch, also for 0 and 1 epochs.
C10_PlotLengthsAgree ==
    /\ plot_args # <<>> => plot_args[1].x_len = plot_args[1].y_len
    /\ exit_error # "ValueError: x and y must have same first dimension"

C10_Witness ==
    /\ pc = "completed"
    /\ num_epoch = 0
    /\ plot_args = <<[x_len |-> 0, y_len |-> 0]>>
    /\ PlotFile \in dir_files

====
